---- MODULE Spec2Model ----
(***************************************************************************)
(* The stepping driver of lsodar.odeintr (src/lsodar.py): the loop that    *)
(* repeatedly calls the external solver _lsodar.dlsodar, interprets its    *)
(* status, manages the critical-time cursor, records root events and       *)
(* assembles the option-dependent result.                                  *)
(*                                                                         *)
(* Times are small integers, a state vector is an abstract value.  Python  *)
(* indices are kept as they are in the source (0-based); At(s, i) reads    *)
(* s[i] of a Python list.                                                  *)
(***************************************************************************)
EXTENDS Integers, Sequences, FiniteSets, TLC

\* ------------------------------------------------------------- bounds
\* requested and critical times are drawn from 0..MaxT
MaxT == 3
\* at most MaxNg root functions
MaxNg == 2
\* len(y0), the state dimension
NEq == 2
\* the solver fails with one of the codes -1..-MaxFail
MaxFail == 1

Times == 0..MaxT
\* the initial state vector; the n-th call returns state n
Y0 == 0
\* a tolerance that has no len() (None or a number)
Scalar == -1

\* ------------------------------------------------------------- helpers
At(s, i) == s[i + 1]
PyLen(s) == Len(s)
Last(s) == s[Len(s)]
Min(a, b) == IF a < b THEN a ELSE b

RECURSIVE SortedSeq(_)
SortedSeq(S) ==
    IF S = {} THEN <<>>
    ELSE LET m == CHOOSE x \in S : \A z \in S : x <= z
         IN <<m>> \o SortedSeq(S \ {m})

RECURSIVE Count(_, _)
Count(s, v) ==
    IF s = <<>> THEN 0
    ELSE (IF Head(s) = v THEN 1 ELSE 0) + Count(Tail(s), v)

\* list.index(v): the lowest index holding v
Index(s, v) == (CHOOSE i \in 1..Len(s) : s[i] = v /\ \A j \in 1..(i - 1) : s[j] # v) - 1

\* ------------------------------------------------------------- tables
\* a message is named by its status code
FailureCodes == {-1, -2, -3, -4, -5, -6, -7}
_msgs == [c \in {2, 3} \cup FailureCodes |-> c]

_rwork_vars == {"hu", "tcur", "tolsf", "tsw"}
_iwork_vars == {"nst", "nfe", "nje", "nqu", "imxer", "lenrw", "leniw", "mused"}
InfoKeys == _rwork_vars \cup _iwork_vars

VARIABLES
    t, y0, rtol, atol, tcrit_arg, int_pts, full_output, root_term,  \* the request
    pc, exc,                \* position of odeintr; the exception it raised
    itol, itask, tcrit,     \* mode codes and the critical-time queue
    istate, tindex, tcrit_ii,
    tout, yout, t_root, y_root, i_root,
    info_dict, message,
    warnings,               \* number of 'Multiple roots' lines printed
    printed,                \* failure messages printed (codes)
    outputs,                \* the value returned
    tcur,                   \* the solver's own state: the time it has reached
    calls,                  \* log of the dlsodar calls made
    prev                    \* the lists as they were before the last call

vars == <<t, y0, rtol, atol, tcrit_arg, int_pts, full_output, root_term,
          pc, exc, itol, itask, tcrit, istate, tindex, tcrit_ii,
          tout, yout, t_root, y_root, i_root, info_dict, message,
          warnings, printed, outputs, tcur, calls, prev>>

request == <<t, y0, rtol, atol, tcrit_arg, int_pts, full_output, root_term>>

neq == NEq
ng == Len(root_term)

\* ------------------------------------------------------------- requests
AscendingSeqs(S) == {SortedSeq(X) : X \in SUBSET S}
TimeSeqs == {<<0>> \o s : s \in AscendingSeqs(1..MaxT)}
\* rtol is a number or a sequence that is too long, atol a sequence of the
\* right length (as in test_lsodar.py) or one that is too long
RtolLens == {Scalar, NEq + 1}
AtolLens == {NEq, NEq + 1}
RootTerms == UNION {[1..n -> {0, 1}] : n \in 0..MaxNg}

\* outputs before the return statement is reached
NotReturned == [bare |-> FALSE, items |-> <<>>]

Init ==
    /\ t \in TimeSeqs
    /\ y0 = Y0
    /\ rtol \in RtolLens
    /\ atol \in AtolLens
    /\ tcrit_arg \in AscendingSeqs(1..MaxT)
    /\ int_pts \in BOOLEAN
    /\ full_output \in BOOLEAN
    /\ root_term \in RootTerms
    /\ pc = "setup"
    /\ exc = "none"
    /\ itol = 0
    /\ itask = 0
    /\ tcrit = tcrit_arg
    /\ istate = 0
    /\ tindex = 0
    /\ tcrit_ii = 0
    /\ tout = <<>>
    /\ yout = <<>>
    /\ t_root = <<>>
    /\ y_root = <<>>
    /\ i_root = <<>>
    /\ info_dict = [k \in InfoKeys |-> <<>>]
    /\ message = 0
    /\ warnings = 0
    /\ printed = <<>>
    /\ outputs = NotReturned
    /\ tcur = t[1]
    /\ calls = <<>>
    /\ prev = [tout |-> <<>>, yout |-> <<>>, t_root |-> <<>>, y_root |-> <<>>,
               i_root |-> <<>>, info_dict |-> [k \in InfoKeys |-> <<>>], message |-> 0]

\* as if line 313 added tout for int_pts only
OutputsNoRootTimes(ip, g, fo) ==
    <<"yout">>
    \o (IF ip THEN <<"tout">> ELSE <<>>)
    \o (IF g > 0 THEN <<"t_root", "y_root", "i_root">> ELSE <<>>)
    \o (IF fo THEN <<"info_dict">> ELSE <<>>)

\* ------------------------------------------------------------- the result
\* lines 312-318
Outputs(ip, g, fo) ==
    <<"yout">>
    \o (IF ip \/ g > 0 THEN <<"tout">> ELSE <<>>)
    \o (IF g > 0 THEN <<"t_root", "y_root", "i_root">> ELSE <<>>)
    \o (IF fo THEN <<"info_dict">> ELSE <<>>)

\* lines 320-323: a tuple of one element is returned as that element
Returned(items) == [bare |-> Len(items) = 1, items |-> items]

\* as if lines 173 and 181 read 'rlen < neq'
TolShort(tol) == tol # Scalar /\ tol < neq

\* ------------------------------------------------------------- set-up
\* lines 168-183: a tolerance with a len() must have len() = neq
TolMismatch(tol) == tol # Scalar /\ tol # neq

\* lines 186-189
Itol(rtol_seq, atol_seq) ==
    IF ~rtol_seq /\ ~atol_seq THEN 1
    ELSE IF ~rtol_seq /\ atol_seq THEN 2
    ELSE IF rtol_seq /\ ~atol_seq THEN 3
    ELSE 4

\* as if line 206 were missing
Itask0NoIntPts(tc, ip) == IF tc # <<>> \/ ip THEN 4 ELSE 1

\* lines 191-206: the stepping mode
Itask0(tc, ip) == IF ip THEN 5 ELSE IF tc # <<>> THEN 4 ELSE 1

\* lines 199-203 use the module sets, which lsodar.py never imports
NeedsSets(tc, ip) == ip /\ tc # <<>>

\* lines 204-205: without caller critical times the queue is t[1:]
Tcrit0(tc, ip, tt) == IF ip /\ tc = <<>> THEN Tail(tt) ELSE tc

\* as if line 248 read 'tindex < len(t) - 1'
LoopConditionShort(ti, tt) == ti < PyLen(tt) - 1

\* line 248
LoopCondition(ti, tt) == ti < PyLen(tt)

\* lines 168-174, 176-182: raise ValueError
RaiseTolerance ==
    /\ pc = "setup"
    /\ TolMismatch(rtol) \/ TolMismatch(atol)
    /\ pc' = "raised"
    /\ exc' = "ValueError"
    /\ UNCHANGED <<request, itol, itask, tcrit, istate, tindex, tcrit_ii,
                   tout, yout, t_root, y_root, i_root, info_dict, message,
                   warnings, printed, outputs, tcur, calls, prev>>

\* lines 168-200: the tolerances pass, then sets.Set raises NameError
RaiseNameError ==
    /\ pc = "setup"
    /\ ~(TolMismatch(rtol) \/ TolMismatch(atol))
    /\ NeedsSets(tcrit_arg, int_pts)
    /\ pc' = "raised"
    /\ exc' = "NameError"
    /\ itol' = Itol(rtol # Scalar, atol # Scalar)
    /\ itask' = 4
    /\ UNCHANGED <<request, tcrit, istate, tindex, tcrit_ii,
                   tout, yout, t_root, y_root, i_root, info_dict, message,
                   warnings, printed, outputs, tcur, calls, prev>>

\* lines 150-248: from the entry to the first call of the solver, or to the
\* return (lines 311-323) when t holds the initial time only
Setup ==
    /\ pc = "setup"
    /\ ~(TolMismatch(rtol) \/ TolMismatch(atol))
    /\ ~NeedsSets(tcrit_arg, int_pts)
    /\ itol' = Itol(rtol # Scalar, atol # Scalar)
    /\ itask' = Itask0(tcrit_arg, int_pts)
    /\ tcrit' = Tcrit0(tcrit_arg, int_pts, t)
    /\ istate' = 1
    /\ tindex' = 1
    /\ tout' = <<At(t, 0)>>
    /\ yout' = <<y0>>
    /\ t_root' = <<>>
    /\ y_root' = <<>>
    /\ i_root' = <<>>
    /\ info_dict' = [k \in InfoKeys |-> <<>>]
    /\ tcrit_ii' = 0
    /\ IF LoopCondition(1, t)
       THEN pc' = "loop" /\ outputs' = outputs
       ELSE pc' = "done" /\ outputs' = Returned(Outputs(int_pts, ng, full_output))
    /\ UNCHANGED <<request, exc, message, warnings, printed, tcur, calls, prev>>

\* ------------------------------------------------------------- the solver
\* _lsodar.dlsodar: what its n-th call may answer.  A success moves forward
\* and never passes the target; in modes 1 and 4 a plain success is at the
\* target, in mode 5 it is one internal step; a root lies after the current
\* time, up to the target, and sets at least one indicator.  The driver only copies the
\* state vector, so the vector returned by the n-th call is named n.
NoRoot(g) == [i \in 1..g |-> 0]
RootVectors(g) == {j \in [1..g -> {0, 1}] : \E i \in 1..g : j[i] = 1}

SolverAdvance(task, cur, target, g, n) ==
    {[y |-> n, treached |-> cur, istate |-> -c, jroot |-> NoRoot(g)] : c \in 1..MaxFail}
    \cup
    {[y |-> n, treached |-> tr, istate |-> 2, jroot |-> NoRoot(g)] :
        tr \in IF task = 5 THEN {x \in Times : cur < x /\ x <= target} ELSE {target}}
    \cup
    IF g > 0
    THEN {[y |-> n, treached |-> tr, istate |-> 3, jroot |-> j] :
            tr \in {x \in Times : cur < x /\ x <= target},
            j \in RootVectors(g)}
    ELSE {}

\* rwork[index] / iwork[index] as the solver left them after its n-th call
Work(key, treached, n) == IF key = "tcur" THEN treached ELSE n

\* as if lines 250-252 were missing
TwantedNoMin(task, tc, ci, tt, ti) == At(tt, ti)

\* ------------------------------------------------------------- the loop
\* lines 249-252
Twanted(task, tc, ci, tt, ti) ==
    IF (task = 4 \/ task = 5) /\ ci < PyLen(tc)
    THEN Min(At(tc, ci), At(tt, ti))
    ELSE At(tt, ti)

\* as if line 263 took only the codes below -1 for failures
FailureBelow(st) == st < -1

\* line 263
Failure(st) == st < 0

\* as if lines 274-275 were not under the test of line 273
RecordEvery(treached, tnext, task, st) == TRUE

\* as if line 273 lacked 'or istate == 3'
RecordPointNoRoot(treached, tnext, task, st) == treached = tnext \/ task = 5

\* line 273
RecordPoint(treached, tnext, task, st) == treached = tnext \/ task = 5 \/ st = 3

\* as if the lists were built with insert(0, x)
RecordFront(list, x) == <<x>> \o list

\* lines 274-275, 278, 280, 304-306: list.append
Record(list, x) == Append(list, x)

\* as if lines 276-281 were one level further out
InfoPointAlways(rec, fo) == fo

\* line 276, inside the block of line 273
InfoPoint(rec, fo) == rec /\ fo

\* as if line 285 were not under the test of line 284
ReachedGoalAlways(treached, tnext) == TRUE

\* line 284
ReachedGoal(treached, tnext) == treached = tnext

\* as if lines 288-293 were missing
ReachedCritNever(task, treached, tc, ci) == FALSE

\* as if line 288 were 'if True:'
ReachedCritAnyMode(task, treached, tc, ci) == TRUE

\* line 288: 'or' binds weaker than 'and'
ReachedCrit(task, treached, tc, ci) == task = 4 \/ (task = 5 /\ treached = At(tc, ci))

\* as if line 298 read 'jroot.count(1) != 0'
WarnsAnyRoot(jroot) == Count(jroot, 1) # 0

\* line 298
Warns(jroot) == Count(jroot, 1) # 1

\* as if line 302 took the highest index holding 1
CrossedLast(jroot) == (CHOOSE i \in 1..Len(jroot) :
                          jroot[i] = 1 /\ \A j \in (i + 1)..Len(jroot) : jroot[j] # 1) - 1

\* line 302
Crossed(jroot) == Index(jroot, 1)

\* as if line 308 read the flag of the first root function
TerminatesFirst(rt, crossed) == At(rt, 0) = 1

\* line 308
Terminates(rt, crossed) == At(rt, crossed) = 1

\* lines 249-309, then line 248 again: one call of the solver and what the
\* driver does with its answer, up to the next call or to the return
\* (lines 311-323)
Iterate ==
    /\ pc = "loop"
    /\ LET twanted == Twanted(itask, tcrit, tcrit_ii, t, tindex)
           n == Len(calls) + 1
       IN \E r \in SolverAdvance(itask, tcur, twanted, ng, n) :
          LET ok == ~Failure(r.istate)
              rec == ok /\ RecordPoint(r.treached, At(t, tindex), itask, r.istate)
              goal == ok /\ ReachedGoal(r.treached, At(t, tindex))
              crit == ok /\ ReachedCrit(itask, r.treached, tcrit, tcrit_ii)
              root == ok /\ r.istate = 3
              crossed == Crossed(r.jroot)
              ti == IF goal THEN tindex + 1 ELSE tindex
              ci == IF crit THEN tcrit_ii + 1 ELSE tcrit_ii
              break == ~ok \/ (root /\ Terminates(root_term, crossed))
          IN /\ calls' = Append(calls,
                    [twanted |-> twanted, itask |-> itask, istate_in |-> istate,
                     treached |-> r.treached, y |-> r.y, istate |-> r.istate,
                     jroot |-> r.jroot, tindex |-> tindex, tcrit_ii |-> tcrit_ii])
             /\ prev' = [tout |-> tout, yout |-> yout, t_root |-> t_root,
                         y_root |-> y_root, i_root |-> i_root,
                         info_dict |-> info_dict, message |-> message]
             /\ istate' = r.istate
             /\ tcur' = IF ok THEN r.treached ELSE tcur
             /\ printed' = IF ok THEN printed ELSE Append(printed, _msgs[r.istate])
             /\ yout' = IF rec THEN Record(yout, r.y) ELSE yout
             /\ tout' = IF rec THEN Record(tout, r.treached) ELSE tout
             /\ info_dict' = IF InfoPoint(rec, full_output)
                             THEN [k \in InfoKeys |->
                                      Record(info_dict[k], Work(k, r.treached, n))]
                             ELSE info_dict
             /\ message' = IF InfoPoint(rec, full_output) THEN _msgs[r.istate] ELSE message
             /\ tindex' = ti
             /\ tcrit_ii' = ci
             /\ itask' = IF crit /\ ci = PyLen(tcrit) THEN 1 ELSE itask
             /\ warnings' = IF root /\ Warns(r.jroot) THEN warnings + 1 ELSE warnings
             /\ t_root' = IF root THEN Record(t_root, r.treached) ELSE t_root
             /\ y_root' = IF root THEN Record(y_root, r.y) ELSE y_root
             /\ i_root' = IF root THEN Record(i_root, crossed) ELSE i_root
             /\ IF break \/ ~LoopCondition(ti, t)
                THEN pc' = "done" /\ outputs' = Returned(Outputs(int_pts, ng, full_output))
                ELSE pc' = "loop" /\ outputs' = outputs
    /\ UNCHANGED <<request, exc, itol, tcrit>>

Next ==
    \/ RaiseTolerance
    \/ RaiseNameError
    \/ Setup
    \/ Iterate

Spec == Init /\ [][Next]_vars

\* odeintr is sequential code: once called it keeps executing, so a step
\* that can be taken is taken
LiveSpec == Spec /\ WF_vars(Next)

TypeOK ==
    /\ pc \in {"setup", "loop", "done", "raised"}
    /\ exc \in {"none", "ValueError", "NameError"}
    /\ itask \in {0, 1, 4, 5}
    /\ tindex \in 0..Len(t)
    /\ tcrit_ii \in 0..Len(tcrit)

\* ------------------------------------------------------------- properties
Range(s) == {s[i] : i \in 1..Len(s)}
Started == pc \in {"loop", "done"}
NonDecreasing(s) == \A i \in 1..(Len(s) - 1) : s[i] <= s[i + 1]
Increasing(s) == \A i \in 1..(Len(s) - 1) : s[i] < s[i + 1]
\* rows is roots, whole and in order, interleaved with a subsequence of the
\* strictly ascending sequence wanted
RECURSIVE Interleaved(_, _, _)
Interleaved(rows, roots, wanted) ==
    IF rows = <<>> THEN roots = <<>>
    ELSE \/ /\ roots # <<>>
            /\ Head(rows) = Head(roots)
            /\ Interleaved(Tail(rows), Tail(roots), wanted)
         \/ \E i \in 1..Len(wanted) :
               /\ Head(rows) = wanted[i]
               /\ Interleaved(Tail(rows), roots, SubSeq(wanted, i + 1, Len(wanted)))
LowestSet(j) == CHOOSE i \in 1..Len(j) : j[i] = 1 /\ \A m \in 1..(i - 1) : j[m] # 1
BadLength(tol) == tol # Scalar /\ tol # NEq
NoFailure == \A k \in 1..Len(calls) : calls[k].istate >= 0
NoRootReported == \A k \in 1..Len(calls) : calls[k].istate # 3
TerminatingRoot(c) == c.istate = 3 /\ root_term[LowestSet(c.jroot)] = 1

\* C1: a call that returns status 3 for a root whose termination flag is set
\* is the last call of the run, also when requested times remain, and the
\* run returns with that root's (time, state) as the last trace row and as
\* the last entry of the root lists.
C1_RootTerminationStops ==
    \A k \in 1..Len(calls) :
        TerminatingRoot(calls[k]) =>
            /\ k = Len(calls)
            /\ pc = "done"
            /\ Last(tout) = calls[k].treached
            /\ Last(yout) = calls[k].y
            /\ Last(t_root) = calls[k].treached
            /\ Last(y_root) = calls[k].y
            /\ Last(i_root) = LowestSet(calls[k].jroot) - 1

C1_Witness ==
    /\ pc = "done"
    /\ Len(calls) >= 2
    /\ TerminatingRoot(Last(calls))
    /\ tindex < Len(t)
    /\ Last(calls).treached < At(t, tindex)

\* C2: a call that returns a negative status is the last call of the run,
\* it appends nothing to the trace, the root lists or the diagnostics, and
\* the run returns what it had before that call.
C2_FailureStops ==
    \A k \in 1..Len(calls) :
        calls[k].istate < 0 =>
            /\ k = Len(calls)
            /\ pc = "done"
            /\ tout = prev.tout
            /\ yout = prev.yout
            /\ t_root = prev.t_root
            /\ y_root = prev.y_root
            /\ i_root = prev.i_root
            /\ info_dict = prev.info_dict
            /\ outputs # NotReturned

C2_Witness ==
    /\ pc = "done"
    /\ Len(calls) >= 2
    /\ Last(calls).istate < 0
    /\ Len(tout) >= 2
    /\ full_output
    /\ tindex < Len(t)

\* C3: with valid tolerances the driver never ends in an exception: it
\* returns a result.
C3_NeverAborts ==
    (~BadLength(rtol) /\ ~BadLength(atol)) => pc # "raised"

C5_TraceLength ==
    (pc = "done" /\ NoRootReported /\ NoFailure) => Len(tout) = Len(t)

\* C5 amended: with no root reported and no failure, and intermediate
\* output not requested, the returned trace has len(t) rows.
C5_TraceLengthPlain ==
    (pc = "done" /\ NoRootReported /\ NoFailure /\ ~int_pts) =>
        /\ Len(tout) = Len(t)
        /\ Len(yout) = Len(t)

C5_Witness ==
    /\ pc = "done"
    /\ NoRootReported /\ NoFailure /\ ~int_pts
    /\ Len(t) >= 3
    /\ Len(calls) > Len(t) - 1

\* C6: the trace times never decrease; without intermediate output the rows
\* after the first are the root events, all of them and in their order,
\* interleaved with an ordered subsequence of t[1:].
C6_TraceTimes ==
    Started =>
        /\ NonDecreasing(tout)
        /\ ~int_pts => Interleaved(Tail(tout), t_root, Tail(t))

C6_Witness ==
    /\ pc = "done"
    /\ ~int_pts
    /\ Len(t_root) >= 1
    /\ Len(tout) > Len(t_root) + 1
    /\ Len(calls) > Len(tout) - 1
    /\ \E i \in 1..Len(t_root) : t_root[i] \notin Range(t)

\* C7: once the lists exist the first trace row is (t[0], y0), also after a
\* failure or a root termination.
C7_FirstRow ==
    Started =>
        /\ Len(tout) >= 1
        /\ Len(yout) = Len(tout)
        /\ tout[1] = t[1]
        /\ yout[1] = y0

C7_Witness ==
    /\ pc = "done"
    /\ Len(tout) >= 3
    /\ Last(calls).istate < 0
    /\ Len(t_root) >= 1

\* C8: with diagnostics requested every diagnostics list has
\* len(tout) - 1 entries, between the calls and at the return.
C8_DiagnosticsLength ==
    (Started /\ full_output) =>
        \A k \in InfoKeys : Len(info_dict[k]) = Len(tout) - 1

C8_Witness ==
    /\ pc = "done"
    /\ full_output
    /\ Len(tout) >= 2
    /\ Len(calls) > Len(tout)
    /\ Last(calls).istate < 0

\* C9: a tolerance sequence of the wrong length ends the request with
\* ValueError before any call of the solver and before any list is built.
C9_ToleranceError ==
    (BadLength(rtol) \/ BadLength(atol)) =>
        /\ pc \in {"setup", "raised"}
        /\ pc = "setup" => ENABLED RaiseTolerance
        /\ pc = "raised" => exc = "ValueError"
        /\ calls = <<>>
        /\ tout = <<>>
        /\ outputs = NotReturned

C9_Witness ==
    /\ pc = "raised"
    /\ exc = "ValueError"
    /\ rtol = Scalar
    /\ BadLength(atol)
    /\ Len(t) >= 2

\* C10: while no call has failed and no root has ended the run, the solver
\* is not given a target beyond a critical time c, t[0] < c <= t[-1], before
\* a call has returned at c.
C10_CriticalTimesReached ==
    \A c \in Range(tcrit_arg) :
        (t[1] < c /\ c <= Last(t)) =>
            \A k \in 1..Len(calls) :
                ((\A j \in 1..k : calls[j].istate >= 0) /\ calls[k].twanted > c) =>
                    \E j \in 1..(k - 1) : calls[j].treached = c

RootCalls == SelectSeq(calls, LAMBDA c : c.istate = 3)
NoFlagSet == \A i \in 1..Len(root_term) : root_term[i] = 0
NoTerminatingRoot == \A k \in 1..Len(calls) : ~TerminatingRoot(calls[k])

\* C11: with root functions, no termination flag and no failure, every root
\* the solver reports is in the root lists and in the trace, the run goes on
\* while requested times remain, and it returns with every time of t[1:] in
\* the time trace.
C11_RootsRecordedRunContinues ==
    (Started /\ Len(root_term) > 0 /\ NoFlagSet /\ NoFailure) =>
        /\ Len(t_root) = Len(RootCalls)
        /\ \A i \in 1..Len(RootCalls) :
              /\ t_root[i] = RootCalls[i].treached
              /\ y_root[i] = RootCalls[i].y
              /\ \E m \in 2..Len(tout) :
                    tout[m] = RootCalls[i].treached /\ yout[m] = RootCalls[i].y
        /\ pc = "loop" <=> tindex < Len(t)
        /\ pc = "done" => Range(Tail(t)) \subseteq Range(tout)

C11_Witness ==
    /\ pc = "done"
    /\ Len(root_term) = 2
    /\ NoFlagSet /\ NoFailure
    /\ Len(t_root) >= 2
    /\ Len(t) >= 3
    /\ \E i \in 1..Len(t_root) : t_root[i] \notin Range(t)

\* C12: with intermediate output, no failure and no terminating root, the
\* returned time trace holds every time of t[1:] and ends at t[-1].
C12_IntermediateOutputTimes ==
    (pc = "done" /\ int_pts /\ NoFailure /\ NoTerminatingRoot) =>
        /\ Range(Tail(t)) \subseteq Range(tout)
        /\ Last(tout) = Last(t)

C12_Witness ==
    /\ pc = "done"
    /\ int_pts /\ NoFailure /\ NoTerminatingRoot
    /\ Len(t) >= 3
    /\ Len(tout) > Len(t)
    /\ \E m \in 1..Len(tout) : tout[m] \notin Range(t)

Ones(j) == Cardinality({i \in 1..Len(j) : j[i] = 1})
MultipleRoots(c) == c.istate = 3 /\ Ones(c.jroot) > 1

\* C13: a warning is printed for exactly the calls that report a root with
\* more than one indicator set; such a call records the lowest set index and
\* does not end the run unless that root's termination flag is set or no
\* requested time remains.
C13_MultipleRootsWarn ==
    Started =>
        /\ warnings = Cardinality({k \in 1..Len(calls) : MultipleRoots(calls[k])})
        /\ Len(i_root) = Len(RootCalls)
        /\ \A i \in 1..Len(RootCalls) : i_root[i] = LowestSet(RootCalls[i].jroot) - 1
        /\ (/\ calls # <<>>
            /\ MultipleRoots(Last(calls))
            /\ ~TerminatingRoot(Last(calls))
            /\ tindex < Len(t)) => pc = "loop"

C13_Witness ==
    /\ pc = "loop"
    /\ Len(calls) >= 2
    /\ MultipleRoots(Last(calls))
    /\ ~MultipleRoots(calls[1]) /\ calls[1].istate = 3
    /\ warnings = 1
    /\ Last(i_root) = 0

\* C14: when the run ends on a failure code and diagnostics were requested,
\* the message of the returned diagnostics is the message of that failure code.
C14_FailureMessage ==
    (pc = "done" /\ full_output /\ Failure(istate)) => message = _msgs[istate]

\* the cursor as the call numbered k left it
CursorAfter(k) == IF k < Len(calls) THEN calls[k + 1].tcrit_ii ELSE tcrit_ii
CriticalMode(c) == c.itask \in {4, 5}

\* C15: after a successful call the cursor is one further if the call was made
\* in mode 4 or 5 and returned at the current critical time, and is unchanged
\* in every other case.
C15_CursorAdvance ==
    \A k \in 1..Len(calls) :
        ~Failure(calls[k].istate) =>
            CursorAfter(k) =
                IF /\ CriticalMode(calls[k])
                   /\ calls[k].tcrit_ii < Len(tcrit)
                   /\ calls[k].treached = At(tcrit, calls[k].tcrit_ii)
                THEN calls[k].tcrit_ii + 1
                ELSE calls[k].tcrit_ii

Exhausted(c) == c.tcrit_ii >= Len(tcrit)
Smaller(a, b) == IF a <= b THEN a ELSE b

\* C16: the target of every call is t[tindex] in plain mode or with the queue
\* exhausted, and the smaller of tcrit[cursor] and t[tindex] otherwise; it is
\* never beyond t[tindex] nor beyond the pending critical time.
C16_TargetTime ==
    \A k \in 1..Len(calls) :
        LET c == calls[k] IN
        /\ c.twanted = IF c.itask = 1 \/ Exhausted(c)
                       THEN t[c.tindex + 1]
                       ELSE Smaller(tcrit[c.tcrit_ii + 1], t[c.tindex + 1])
        /\ c.twanted <= t[c.tindex + 1]
        /\ (CriticalMode(c) /\ ~Exhausted(c)) => c.twanted <= tcrit[c.tcrit_ii + 1]

C16_Witness ==
    /\ Len(calls) >= 2
    /\ CriticalMode(calls[1]) /\ calls[1].twanted < t[calls[1].tindex + 1]
    /\ Last(calls).itask = 1 /\ Exhausted(Last(calls))
    /\ Last(calls).twanted = t[Last(calls).tindex + 1]

Succeeded(c) == ~Failure(c.istate)
AtRequested(c) == c.treached = t[c.tindex + 1]

\* C17: a successful call appends exactly one row (treached, y) to the trace
\* if it returned at t[tindex], or intermediate output is on, or it reported a
\* root, and none otherwise; tindex is one further exactly when the call
\* returned at t[tindex].
C17_RowAndIndex ==
    (calls # <<>> /\ Succeeded(Last(calls))) =>
        LET c == Last(calls) IN
        /\ (c.itask = 5) <=> int_pts
        /\ IF AtRequested(c) \/ int_pts \/ c.istate = 3
           THEN /\ tout = Append(prev.tout, c.treached)
                /\ yout = Append(prev.yout, c.y)
           ELSE /\ tout = prev.tout
                /\ yout = prev.yout
        /\ tindex = IF AtRequested(c) THEN c.tindex + 1 ELSE c.tindex

C17_Witness ==
    /\ Len(calls) = 2
    /\ calls[1].istate = 2 /\ ~AtRequested(calls[1]) /\ ~int_pts
    /\ Len(prev.tout) = 1
    /\ calls[2].istate = 3 /\ ~AtRequested(calls[2])
    /\ Len(tout) = 2
    /\ tindex = calls[2].tindex

\* C18: whenever the tolerances are accepted, the stepping loop is handed a
\* strictly ascending critical-time queue, and with intermediate output that
\* queue is the sorted union of the caller's critical times and t[1:], with
\* or without a caller critical-time list.
C18_CriticalQueue ==
    (pc # "setup" /\ ~BadLength(rtol) /\ ~BadLength(atol)) =>
        /\ Started
        /\ Increasing(tcrit)
        /\ int_pts => tcrit = SortedSeq(Range(tcrit_arg) \cup Range(Tail(t)))

\* the mode as the call numbered k left it
ModeAfter(k) == IF k < Len(calls) THEN calls[k + 1].itask ELSE itask
FirstMode == IF calls = <<>> THEN itask ELSE calls[1].itask

\* C19: a run starts in mode 5 with intermediate output, else in mode 4 with
\* critical times, else in mode 1; the mode changes only from 4 or 5 to 1, in
\* the iteration that brings the cursor to the length of the queue, and a
\* plain mode stays plain.
C19_SteppingMode ==
    Started =>
        /\ FirstMode = IF int_pts THEN 5
                       ELSE IF tcrit_arg # <<>> THEN 4
                       ELSE 1
        /\ \A k \in 1..Len(calls) :
              \/ ModeAfter(k) = calls[k].itask
              \/ /\ calls[k].itask \in {4, 5}
                 /\ ModeAfter(k) = 1
                 /\ calls[k].tcrit_ii < Len(tcrit)
                 /\ CursorAfter(k) = Len(tcrit)
        /\ \A k \in 1..Len(calls) : \A m \in k..Len(calls) :
              calls[k].itask = 1 => calls[m].itask = 1 /\ itask = 1

C19_Witness ==
    /\ Len(calls) >= 3
    /\ calls[1].itask = 4 /\ calls[2].itask = 4
    /\ Last(calls).itask = 1
    /\ calls[1].tcrit_ii = 0 /\ calls[2].tcrit_ii = 1 /\ Len(tcrit) = 2

\* C20: a call that reports a root adds one entry to each of t_root, y_root
\* and i_root, and any other call adds none; the three lists always have the
\* same length, and the time and state of the entry added are those of the
\* trace row added by the same call.
C20_RootEvents ==
    /\ Len(t_root) = Len(y_root) /\ Len(y_root) = Len(i_root)
    /\ Len(t_root) = Len(RootCalls)
    /\ calls # <<>> =>
          LET c == Last(calls) IN
          IF c.istate = 3
          THEN /\ t_root = Append(prev.t_root, c.treached)
               /\ y_root = Append(prev.y_root, c.y)
               /\ i_root = Append(prev.i_root, LowestSet(c.jroot) - 1)
               /\ tout = Append(prev.tout, Last(t_root))
               /\ yout = Append(prev.yout, Last(y_root))
          ELSE /\ t_root = prev.t_root
               /\ y_root = prev.y_root
               /\ i_root = prev.i_root

C20_Witness ==
    /\ Len(calls) = 3
    /\ calls[1].istate = 3 /\ calls[2].istate = 2 /\ calls[3].istate = 3
    /\ calls[3].jroot = <<1, 1>>
    /\ Len(prev.t_root) = 1 /\ Len(t_root) = 2
    /\ Last(t_root) = Last(tout)

\* the states of the driver: RUNNING while the loop goes on; after the return
\* ERROR on a failure code, otherwise DONE (through ROOT_FOUND when a root
\* whose flag is set ended the run)
DriverState ==
    IF pc = "loop" THEN "RUNNING"
    ELSE IF pc = "done" /\ Failure(istate) THEN "ERROR"
    ELSE IF pc = "done" THEN "DONE"
    ELSE "NONE"
ThroughRootFound == pc = "done" /\ calls # <<>> /\ TerminatingRoot(Last(calls))

\* C21: the first call is handed status 1 and every later call the status the
\* call before it returned, which is 2 or 3, never a negative one; a run ends
\* in DONE (possibly through ROOT_FOUND) or in ERROR, and no call is made
\* after a failure or a terminating root or the last requested time.
C21_StatusChain ==
    Started =>
        /\ \A k \in 1..Len(calls) :
              /\ calls[k].istate_in = IF k = 1 THEN 1 ELSE calls[k - 1].istate
              /\ calls[k].istate_in \in {1, 2, 3}
              /\ k > 1 => calls[k].istate_in \in {2, 3}
        /\ \A k \in 1..(Len(calls) - 1) :
              /\ Succeeded(calls[k])
              /\ ~TerminatingRoot(calls[k])
              /\ calls[k + 1].tindex < Len(t)
        /\ DriverState \in {"RUNNING", "DONE", "ERROR"}
        /\ DriverState = "ERROR" <=> (calls # <<>> /\ ~Succeeded(Last(calls)))
        /\ DriverState = "RUNNING" =>
              (tindex < Len(t) /\ (calls # <<>> =>
                  Succeeded(Last(calls)) /\ ~TerminatingRoot(Last(calls))))
        /\ DriverState = "DONE" => (ThroughRootFound \/ tindex = Len(t))

C21_Witness ==
    /\ Len(calls) = 3
    /\ calls[2].istate_in = 3 /\ calls[3].istate_in = 2
    /\ DriverState = "ERROR"

CallBound ==
    (Started /\ ~int_pts /\ NoRootReported) =>
        Len(calls) <= (Len(t) - 1) + Len(tcrit)

\* C22: with a solver that answers a plain success at the target in modes 1
\* and 4 and takes finitely many steps to the target in mode 5, a run that
\* has started its loop eventually returns; without intermediate output and
\* with no root reported it makes at most (len(t) - 1) + len(tcrit) calls.
C22_Returns == []CallBound /\ (Started ~> pc = "done")

C22_Witness ==
    /\ pc = "done"
    /\ ~int_pts /\ NoRootReported /\ NoFailure
    /\ Len(tcrit) = 2
    /\ Len(calls) = (Len(t) - 1) + Len(tcrit)

\* tindex as the call numbered k left it
IndexAfter(k) == IF k < Len(calls) THEN calls[k + 1].tindex ELSE tindex
StepOf(a, b) == a <= b /\ b <= a + 1

\* C23: once the loop variables are set, 1 <= tindex <= len(t) and
\* 0 <= tcrit_ii <= len(tcrit); no iteration lowers either cursor or raises it
\* by more than one; and tcrit[tcrit_ii] is read (lines 250-252 and 288, both
\* under itask 4 or 5) only with tcrit_ii < len(tcrit).
C23_Cursors ==
    Started =>
        /\ 1 <= tindex /\ tindex <= Len(t)
        /\ 0 <= tcrit_ii /\ tcrit_ii <= Len(tcrit)
        /\ \A k \in 1..Len(calls) :
              /\ 1 <= calls[k].tindex /\ calls[k].tindex < Len(t)
              /\ 0 <= calls[k].tcrit_ii /\ calls[k].tcrit_ii <= Len(tcrit)
              /\ StepOf(calls[k].tindex, IndexAfter(k))
              /\ StepOf(calls[k].tcrit_ii, CursorAfter(k))
              /\ CriticalMode(calls[k]) => calls[k].tcrit_ii < Len(tcrit)

C23_Witness ==
    /\ pc = "done"
    /\ int_pts /\ NoFailure
    /\ Len(calls) >= 3
    /\ tindex = Len(t) /\ tcrit_ii = Len(tcrit) /\ Len(tcrit) >= 2
    /\ IndexAfter(1) = calls[1].tindex /\ CursorAfter(1) = calls[1].tcrit_ii

====
